---- MODULE Spec2Model ----
(***************************************************************************)
(* Model of the boomerang seek/homing controller (BoomerangBehavior) of    *)
(* the GameEngine repository, together with the collaborators it talks to: *)
(* the boomerang's game object (position), its rigid body (linear velocity *)
(* and the forces applied to it).  The player cameras and the positions of *)
(* the player entities are read as inputs of the calls that use them.      *)
(*                                                                         *)
(* The second component modelled is the path follower (MovingPlatform)     *)
(* with the game object it moves.  Its times are whole time units, its     *)
(* interpolation parameter t is an exact fraction and the positions it     *)
(* reads and writes are fixed point with two decimals.                     *)
(*                                                                         *)
(* Vectors are triples of integers.  Positions and velocities are in world *)
(* units; unit vectors and forces are fixed point with two decimals        *)
(* (100 = 1.0).  A vector whose components are NaN is the value NaNVec.    *)
(***************************************************************************)
EXTENDS Integers, Sequences, FiniteSets, TLC

VARIABLES
    state,                 \* _state
    targetLocked,          \* _targetLocked
    returning,             \* _returning
    targetPoint,           \* _targetPoint
    targetEntity,          \* _targetEntity (NULL or an entity)
    player,                \* _player (NULL or an entity), set by Awake
    boomerangAcceleration, \* _boomerangAcceleration
    inactivePosition,      \* _inactivePosition
    boomerangLaunchForce,  \* _boomerangLaunchForce
    position,              \* _boomerangEntity's position
    velocity,              \* _rigidBody's linear velocity
    applied,               \* the force the last call applied to _rigidBody (NoForce: none)
    lastCall,              \* the last operation called, its inputs and its result
    nullDeref,             \* the last call dereferenced a null shared_ptr
    crashed,               \* the process has terminated on a fault
    nodes,                 \* MovingPlatform::nodes
    currentMode,           \* MovingPlatform::currentMode
    currentInd,            \* MovingPlatform::currentInd
    nextInd,               \* MovingPlatform::nextInd
    duration,              \* MovingPlatform::duration
    timer,                 \* MovingPlatform::timer
    t,                     \* MovingPlatform::t, a fraction <<numerator, denominator>>
    forward,               \* MovingPlatform::forward
    platformPosition,      \* position of the platform's game object
    wrote,                 \* the last call set the position of the game object
    outOfRange,            \* the last call read nodes outside the list
    clock,                 \* time the game loop has simulated
    frameTime,             \* the frame time of the game loop so far
    justThrew,             \* PlayerControl::_justThrew of player 1
    frameCalls,            \* the calls the last PlayerControl::Update made on the boomerang
    boomerang2,            \* "Boomerang 2": what the HealthManager's calls write of it
    playerID,              \* HealthManager::_playerID
    healthVal,             \* HealthManager::_healthVal
    loseHealth,            \* HealthManager::_loseHealth
    gotHit,                \* HealthManager::_gotHit
    damageScreenOpacity,   \* HealthManager::_damageScreenOpacity, in 1/120
    hits,                  \* entries of the enemy's boomerang since the last HealthManager::Update
    settledHits            \* what hits was when the last HealthManager::Update began

vars == <<state, targetLocked, returning, targetPoint, targetEntity, player,
          boomerangAcceleration, inactivePosition, boomerangLaunchForce,
          position, velocity, applied, lastCall, nullDeref, crashed>>

ctrl == <<state, targetLocked, returning, targetPoint, targetEntity>>
config == <<player, boomerangAcceleration, inactivePosition, boomerangLaunchForce>>
body == <<position, velocity>>
platform == <<nodes, currentMode, currentInd, nextInd, duration, timer, t, forward,
              platformPosition, wrote, outOfRange>>
game == <<clock, frameTime>>
boomerang == <<ctrl, config, body, applied, nullDeref>>
control == <<justThrew, frameCalls>>
health == <<playerID, healthVal, loseHealth, gotHit, damageScreenOpacity, hits,
           settledHits>>
players == <<control, boomerang2, health>>
all == <<vars, platform, game, players>>

----------------------------------------------------------------------------
(* Bounds of the model *)

MaxDt == 2      \* deltaTime ranges over 1..MaxDt hundredths of a second
MaxX == 1       \* world points lie at x = 0, 5, .., 5*MaxX
MaxNodes == 5   \* a path has 0..MaxNodes nodes
MaxDuration == 3 \* a segment lasts 0..MaxDuration time units
MaxTick == 2    \* the platform's deltaTime ranges over 0..MaxTick time units
MaxUnder == 2   \* Update is followed while currentInd > -MaxUnder
MaxClock == 12  \* the game loop is followed for MaxClock time units
MaxLost == 2    \* HealthManager::Update is followed until MaxLost health is lost
MaxHits == 2    \* up to MaxHits entries of the enemy's boomerang between two Updates

(* Program constants *)

projectileSpacing == 1
DefaultAcceleration == 10000
DefaultLaunchForce == 1
maxHealth == 3
controlPlayerID == 1
FullOpacity == 120

----------------------------------------------------------------------------
(* Values *)

NULL == "null"
Entities == {"Player 1", "Player 2"}
\* the boomerang modelled is the one of player 1, whose target is player 2
BoomerangName == "Boomerang 1"
Targets == {"Player 2"}
States == {"FORWARD", "POINTTRACK", "LOCKTRACK", "RETURNING", "INACTIVE"}

\* the vector whose components are all NaN
NaNVec == <<>>
\* no force
NoForce == <<"none">>
Zero == <<0, 0, 0>>
DefaultInactivePosition == <<0, 0, -100>>

Points == {<<5 * i, 0, 0>> : i \in 0..MaxX}
Velocities == {Zero, <<1, 0, 0>>, <<0, -1, 0>>}
ViewColumns == {<<-1, 0, 0>>, <<0, -1, 0>>}
LaunchForces == {DefaultLaunchForce, 2}
DeltaTimes == 1..MaxDt

\* MovingPlatform::MovementMode
Modes == {"LERP", "CATMULL", "BEZIER"}
\* the i-th point of a route: (0,0,0), (10,0,0), (20,0,2), (30,0,6), ..
Node(i) == <<1000 * (i - 1), 0, 100 * (i - 1) * (i - 2)>>
\* the lists handed to SetNodes: stretches of the route starting at its first
\* or at its second point
NodeLists == {[i \in 1..n |-> Node(i + k)] : n \in 0..MaxNodes, k \in 0..1}
Durations == 0..MaxDuration
Ticks == 0..MaxTick
\* the smaller choice of lists, durations and frame times with which a
\* platform is set up over and over
ShortLists == {[i \in 1..n |-> Node(i)] : n \in 0..(MaxNodes - 1)}
FewDurations == {0, 2}
FewTicks == {0, 1}
\* what a read outside the list may yield
Garbage == {<<-700, -700, -700>>, <<900, 900, 900>>}
\* where the platform's game object is placed when the scene is built
Placement == <<1000, 0, 500>>
\* the value of the member t before its first assignment (no initialiser)
Indeterminate == <<0, 0>>
\* frameTime before the first frame, and once two frames differed
NoFrame == -1
Mixed == -2

----------------------------------------------------------------------------
(* glm::vec3 arithmetic *)

IsNaN(v) == Len(v) = 0

VAdd(a, b) == IF IsNaN(a) \/ IsNaN(b) THEN NaNVec
              ELSE <<a[1] + b[1], a[2] + b[2], a[3] + b[3]>>

VSub(a, b) == IF IsNaN(a) \/ IsNaN(b) THEN NaNVec
              ELSE <<a[1] - b[1], a[2] - b[2], a[3] - b[3]>>

VScale(a, k) == IF IsNaN(a) THEN NaNVec ELSE <<a[1] * k, a[2] * k, a[3] * k>>

\* division rounding toward zero
Quot(a, b) == IF a >= 0 THEN a \div b ELSE -((-a) \div b)

VQuot(a, k) == IF IsNaN(a) THEN NaNVec
               ELSE <<Quot(a[1], k), Quot(a[2], k), Quot(a[3], k)>>

RECURSIVE IsqrtIter(_, _, _)
IsqrtIter(n, lo, hi) ==
    IF lo >= hi THEN lo
    ELSE LET mid == (lo + hi + 1) \div 2
         IN IF mid * mid <= n THEN IsqrtIter(n, mid, hi)
                              ELSE IsqrtIter(n, lo, mid - 1)

Isqrt(n) == IsqrtIter(n, 0, IF n < 46340 THEN n ELSE 46340)

\* glm::normalize: v * inversesqrt(dot(v, v)); the zero vector gives 0 * inf = NaN.
\* The result is a fixed-point unit vector (100 = 1.0).
normalize(v) ==
    IF IsNaN(v) THEN NaNVec
    ELSE LET len2 == v[1] * v[1] + v[2] * v[2] + v[3] * v[3]
         IN IF len2 = 0 THEN NaNVec
            ELSE LET len == Isqrt(len2 * 10000)
                 IN <<Quot(v[1] * 10000, len), Quot(v[2] * 10000, len),
                      Quot(v[3] * 10000, len)>>

----------------------------------------------------------------------------
(* BoomerangBehavior *)

\* Scene::FindObjectByName as used by Awake: the owner of "Boomerang 1" is
\* "Player 1", of any other boomerang "Player 2"; a name that is not in the
\* scene yields a null reference.
Awake(name, scene) ==
    LET owner == IF name = "Boomerang 1" THEN "Player 1" ELSE "Player 2"
    IN IF owner \in scene THEN owner ELSE NULL

TypeOK ==
    /\ state \in States
    /\ targetLocked \in BOOLEAN
    /\ returning \in BOOLEAN
    /\ targetEntity \in Entities \cup {NULL}
    /\ player \in Entities \cup {NULL}
    /\ boomerangAcceleration = DefaultAcceleration
    /\ inactivePosition = DefaultInactivePosition
    /\ boomerangLaunchForce \in LaunchForces
    /\ nullDeref \in BOOLEAN
    /\ crashed \in BOOLEAN

Call(op, arg, ret) == [op |-> op, arg |-> arg, ret |-> ret]

\* PlayerControl of "Player 1" before its first Update
ControlNew ==
    /\ justThrew = FALSE
    /\ frameCalls = <<>>

\* "Boomerang 2" after its BoomerangBehavior's construction
Boomerang2New ==
    boomerang2 = [state |-> "INACTIVE", targetLocked |-> FALSE, returning |-> FALSE,
                  position |-> DefaultInactivePosition, velocity |-> Zero]

\* HealthManager::Awake: _playerID is 1 on "Player 1" and 2 on any other object
HealthAwake(name) == IF name = "Player 1" THEN 1 ELSE 2

\* State of the HealthManager of the object called name after Awake
HealthNew(name) ==
    /\ playerID = HealthAwake(name)
    /\ healthVal = maxHealth
    /\ loseHealth = FALSE
    /\ gotHit = FALSE
    /\ damageScreenOpacity = 0
    /\ hits = 0
    /\ settledHits = 0

PlayersNew == ControlNew /\ Boomerang2New /\ HealthNew("Player 1")

\* State after MovingPlatform's constructor: its member initialisers; t has
\* none and is not read before Update assigns it.
MovingPlatformNew ==
    /\ nodes = <<>>
    /\ currentMode = "LERP"
    /\ currentInd = 0
    /\ nextInd = 0
    /\ duration = 0
    /\ timer = 0
    /\ t = Indeterminate
    /\ forward = TRUE
    /\ platformPosition = Placement
    /\ wrote = FALSE
    /\ outOfRange = FALSE

\* State after construction and Awake: the member initialisers of
\* BoomerangBehavior.h; _targetPoint has no initialiser; the boomerang object
\* is created at the parking spot (main.cpp).
Init ==
    /\ state = "INACTIVE"
    /\ targetLocked = FALSE
    /\ returning = FALSE
    /\ targetPoint \in Points
    /\ targetEntity = NULL
    /\ \E scene \in SUBSET Entities : player = Awake(BoomerangName, scene)
    /\ boomerangAcceleration = DefaultAcceleration
    /\ inactivePosition = DefaultInactivePosition
    /\ boomerangLaunchForce = DefaultLaunchForce
    /\ position = DefaultInactivePosition
    /\ velocity = Zero
    /\ applied = NoForce
    /\ lastCall = Call("Awake", NULL, NULL)
    /\ nullDeref = FALSE
    /\ crashed = FALSE
    /\ MovingPlatformNew
    /\ clock = 0
    /\ frameTime = NoFrame
    /\ PlayersNew

\* _rigidBody->ApplyForce(f): the force handed to the physics engine
ApplyForce(f) == f

\* The force Seek applies for target point tp: the steering term
\* normalize(desired - current) * acceleration * deltaTime plus (0, 0, 9.8)
Seek(tp, deltaTime) ==
    LET desiredVector == normalize(VSub(tp, position))
        currentVector == normalize(velocity)
        appliedVector == VQuot(VScale(normalize(VSub(desiredVector, currentVector)),
                                      boomerangAcceleration * deltaTime), 100)
    IN VAdd(appliedVector, <<0, 0, 980>>)

\* defyGravity applies (0, 0, 9.81)
defyGravity == <<0, 0, 981>>

\* UpdateTarget without its !_targetLocked guard
UpdateTargetState_Unguarded == "POINTTRACK"

\* UpdateTarget guarded against LOCKTRACK only
UpdateTargetState_LockOnly == IF state # "LOCKTRACK" THEN "POINTTRACK" ELSE state

\* UpdateTarget guarded by !_returning
UpdateTargetState_UnlessReturning == IF ~returning THEN "POINTTRACK" ELSE state

\* The state UpdateTarget leaves
UpdateTargetState == IF ~targetLocked THEN "POINTTRACK" ELSE state

\* LockTarget without its !_returning guard
LockTargetState_Unguarded == "LOCKTRACK"

\* LockTarget that locks only a boomerang still flying straight
LockTargetState_ForwardOnly == IF state = "FORWARD" THEN "LOCKTRACK" ELSE state

\* LockTarget that changes the state of a boomerang already locked only
LockTargetState_WhenLocked == IF targetLocked THEN "LOCKTRACK" ELSE state

\* The state LockTarget leaves
LockTargetState == IF ~returning THEN "LOCKTRACK" ELSE state

\* getReadyToThrow that also reports a returning boomerang as ready
getReadyToThrow_OrReturning == state \in {"INACTIVE", "RETURNING"}

\* The value getReadyToThrow returns
getReadyToThrow == state = "INACTIVE"

\* throwWang that always reads PlayerCamera
cameraLocalForward_FirstCamera(views, playerNumber) == VScale(views[1], -1)

\* The forward vector of the camera throwWang reads, PlayerCamera for player 1
\* and PlayerCamera2 otherwise: minus the third column of the view matrix
cameraLocalForward(views, playerNumber) ==
    VScale(IF playerNumber = 1 THEN views[1] ELSE views[2], -1)

\* views[1], views[2]: third column of the view matrix of PlayerCamera, PlayerCamera2
throwWang(playerPosition, playerNumber, views) ==
    /\ ~crashed
    /\ UNCHANGED <<platform, game, players>>
    /\ state' = "FORWARD"
    /\ targetLocked' = FALSE
    /\ returning' = FALSE
    /\ position' = VAdd(playerPosition,
                        VScale(cameraLocalForward(views, playerNumber), projectileSpacing))
    /\ velocity' = VScale(cameraLocalForward(views, playerNumber), boomerangLaunchForce)
    /\ lastCall' = Call("throwWang", <<playerPosition, playerNumber, views>>, NULL)
    /\ nullDeref' = FALSE
    /\ applied' = NoForce
    /\ UNCHANGED <<targetPoint, targetEntity, config, crashed>>

UpdateTarget(newTarget) ==
    /\ ~crashed
    /\ UNCHANGED <<platform, game, players>>
    /\ targetPoint' = newTarget
    /\ state' = UpdateTargetState
    /\ lastCall' = Call("UpdateTarget", newTarget, NULL)
    /\ nullDeref' = FALSE
    /\ applied' = NoForce
    /\ UNCHANGED <<targetLocked, returning, targetEntity, config, body, crashed>>

LockTarget(entity) ==
    /\ ~crashed
    /\ UNCHANGED <<platform, game, players>>
    /\ targetEntity' = entity
    /\ targetLocked' = TRUE
    /\ state' = LockTargetState
    /\ lastCall' = Call("LockTarget", entity, NULL)
    /\ nullDeref' = FALSE
    /\ applied' = NoForce
    /\ UNCHANGED <<returning, targetPoint, config, body, crashed>>

\* returnBoomerang that does not set _targetLocked
DoReturnBoomerang_NoLock ==
    /\ returning' = TRUE
    /\ targetLocked' = targetLocked
    /\ state' = "RETURNING"

\* returnBoomerang that sets the two flags and leaves _state
DoReturnBoomerang_FlagsOnly ==
    /\ returning' = TRUE
    /\ targetLocked' = TRUE
    /\ state' = state

\* the assignments of returnBoomerang
DoReturnBoomerang ==
    /\ returning' = TRUE
    /\ targetLocked' = TRUE
    /\ state' = "RETURNING"

returnBoomerang ==
    /\ ~crashed
    /\ UNCHANGED <<platform, game, players>>
    /\ DoReturnBoomerang
    /\ lastCall' = Call("returnBoomerang", NULL, NULL)
    /\ nullDeref' = FALSE
    /\ applied' = NoForce
    /\ UNCHANGED <<targetPoint, targetEntity, config, body, crashed>>

\* OnCollisionEnter calls returnBoomerang whatever the state
OnCollisionEnter ==
    /\ ~crashed
    /\ UNCHANGED <<platform, game, players>>
    /\ DoReturnBoomerang
    /\ lastCall' = Call("OnCollisionEnter", NULL, NULL)
    /\ nullDeref' = FALSE
    /\ applied' = NoForce
    /\ UNCHANGED <<targetPoint, targetEntity, config, body, crashed>>

\* The position, state and linear velocity of the boomerang
Boomerang == [position |-> position, state |-> state, velocity |-> velocity]

\* makeBoomerangInactive that moves the boomerang by the parking offset and
\* leaves the velocity alone
Parked_Relative(b) ==
    [b EXCEPT !.position = VAdd(b.position, inactivePosition), !.state = "INACTIVE"]

\* What makeBoomerangInactive makes of the boomerang b
Parked(b) ==
    [b EXCEPT !.position = inactivePosition, !.state = "INACTIVE", !.velocity = Zero]

makeBoomerangInactive ==
    /\ ~crashed
    /\ UNCHANGED <<platform, game, players>>
    /\ position' = Parked(Boomerang).position
    /\ state' = Parked(Boomerang).state
    /\ velocity' = Parked(Boomerang).velocity
    /\ lastCall' = Call("makeBoomerangInactive", NULL, NULL)
    /\ nullDeref' = FALSE
    /\ applied' = NoForce
    /\ UNCHANGED <<targetLocked, returning, targetPoint, targetEntity, config,
                   crashed>>

GetReadyToThrow ==
    /\ ~crashed
    /\ UNCHANGED <<platform, game, players>>
    /\ lastCall' = Call("getReadyToThrow", NULL, getReadyToThrow)
    /\ nullDeref' = FALSE
    /\ applied' = NoForce
    /\ UNCHANGED <<ctrl, config, body, crashed>>

\* RenderImGui: the "Launch Force" drag field writes _boomerangLaunchForce
RenderImGui(newForce) ==
    /\ ~crashed
    /\ UNCHANGED <<platform, game, players>>
    /\ boomerangLaunchForce' = newForce
    /\ lastCall' = Call("RenderImGui", newForce, NULL)
    /\ nullDeref' = FALSE
    /\ applied' = NoForce
    /\ UNCHANGED <<ctrl, player, boomerangAcceleration, inactivePosition, body,
                   crashed>>

\* Update that seeks the stored target point without refreshing it
UpdateTrack_Cached(ref, deltaTime) ==
    \E entPos \in [Entities -> Points] :
        /\ targetPoint' = targetPoint
        /\ state' = UpdateTargetState
        /\ applied' = ApplyForce(Seek(targetPoint, deltaTime))
        /\ lastCall' = Call("Update", <<deltaTime, entPos>>, NULL)
        /\ nullDeref' = FALSE
        /\ UNCHANGED crashed

\* Update in LOCKTRACK or RETURNING with a valid reference ref:
\* UpdateTarget(ref->GetPosition()); Seek(deltaTime)
\* entPos: the position of every player entity at this tick
UpdateTrack(ref, deltaTime) ==
    \E entPos \in [Entities -> Points] :
        /\ targetPoint' = entPos[ref]
        /\ state' = UpdateTargetState
        /\ applied' = ApplyForce(Seek(entPos[ref], deltaTime))
        /\ lastCall' = Call("Update", <<deltaTime, entPos>>, NULL)
        /\ nullDeref' = FALSE
        /\ UNCHANGED crashed

\* Update in LOCKTRACK or RETURNING with a null reference: operator-> on a
\* null shared_ptr is undefined; the process faults, or GetPosition reads
\* whatever lies at the address and the tick goes on with that value.
UpdateNull(deltaTime) ==
    /\ nullDeref' = TRUE
    /\ lastCall' = Call("Update", <<deltaTime>>, NULL)
    /\ \/ /\ crashed' = TRUE
          /\ applied' = NoForce
          /\ UNCHANGED <<targetPoint, state>>
       \/ /\ crashed' = FALSE
          /\ \E garbage \in Points :
                /\ targetPoint' = garbage
                /\ state' = UpdateTargetState
                /\ applied' = ApplyForce(Seek(garbage, deltaTime))

Update(deltaTime) ==
    /\ ~crashed
    /\ UNCHANGED <<platform, game, players>>
    /\ CASE state = "FORWARD" ->
              /\ applied' = ApplyForce(defyGravity)
              /\ lastCall' = Call("Update", <<deltaTime>>, NULL)
              /\ nullDeref' = FALSE
              /\ UNCHANGED <<targetPoint, state, crashed>>
         [] state = "POINTTRACK" ->
              /\ applied' = ApplyForce(Seek(targetPoint, deltaTime))
              /\ lastCall' = Call("Update", <<deltaTime>>, NULL)
              /\ nullDeref' = FALSE
              /\ UNCHANGED <<targetPoint, state, crashed>>
         [] state = "LOCKTRACK" ->
              IF targetEntity = NULL THEN UpdateNull(deltaTime)
              ELSE UpdateTrack(targetEntity, deltaTime)
         [] state = "RETURNING" ->
              IF player = NULL THEN UpdateNull(deltaTime)
              ELSE UpdateTrack(player, deltaTime)
         [] OTHER ->
              /\ lastCall' = Call("Update", <<deltaTime>>, NULL)
              /\ nullDeref' = FALSE
              /\ applied' = NoForce
              /\ UNCHANGED <<targetPoint, state, crashed>>
    /\ UNCHANGED <<targetLocked, returning, targetEntity, config, position, velocity>>

\* Scene::DoPhysics: the physics engine integrates the applied forces and
\* moves the body; its result is not determined by this component.
DoPhysics ==
    /\ ~crashed
    /\ UNCHANGED <<platform, game, players>>
    /\ position' \in Points \cup {position}
    /\ velocity' \in Velocities
    /\ lastCall' = Call("DoPhysics", NULL, NULL)
    /\ nullDeref' = FALSE
    /\ applied' = NoForce
    /\ UNCHANGED <<ctrl, config, crashed>>

Next ==
    \/ \E p \in Points, n \in 1..2, views \in [1..2 -> ViewColumns] : throwWang(p, n, views)
    \/ \E p \in Points : UpdateTarget(p)
    \/ \E e \in Targets \cup {NULL} : LockTarget(e)
    \/ returnBoomerang
    \/ OnCollisionEnter
    \/ makeBoomerangInactive
    \/ GetReadyToThrow
    \/ \E f \in LaunchForces : RenderImGui(f)
    \/ \E dt \in DeltaTimes : Update(dt)
    \/ DoPhysics

Spec == Init /\ [][Next]_vars

----------------------------------------------------------------------------
(* MovingPlatform *)

RECURSIVE Gcd(_, _)
Gcd(a, b) == IF b = 0 THEN a ELSE Gcd(b, a % b)

\* the value num / den of a float, in lowest terms (den > 0)
Frac(num, den) == <<num \div Gcd(num, den), den \div Gcd(num, den)>>

RECURSIVE TwoPowMod(_, _)
TwoPowMod(k, n) == IF k = 0 THEN 1 % n ELSE (2 * TwoPowMod(k - 1, n)) % n

\* i >= n, i == n and i % n where the int i is converted to size_t first
\* (a negative int becomes 2^64 + i)
GeU(i, n) == i < 0 \/ i >= n
EqU(i, n) == i >= 0 /\ i = n
ModU(i, n) == IF i >= 0 THEN i % n ELSE ((i % n) + TwoPowMod(64, n)) % n

Abs(i) == IF i < 0 THEN -i ELSE i

\* the index i (0-based) lies in nodes; an int below zero converts to an
\* index beyond every list
InList(i) == i >= 0 /\ i < Len(nodes)

\* Lerp with the weights of the two points exchanged
Lerp_Swapped(p0, p1, tt) ==
    [i \in 1..3 |-> Quot(tt[1] * p0[i] + (tt[2] - tt[1]) * p1[i], tt[2])]

\* Lerp with the member t passed as tt = <<num, den>>
Lerp(p0, p1, tt) ==
    [i \in 1..3 |-> Quot((tt[2] - tt[1]) * p0[i] + tt[1] * p1[i], tt[2])]

\* Catmull computing the cubic Bezier basis of MovingPlatform::Bezier
Catmull_AsBezier(p0, p1, p2, p3, tt) ==
    LET n == tt[1]
        d == tt[2]
    IN [i \in 1..3 |->
          Quot(p0[i] * d * d * d
               + n * d * d * (3 * p1[i] - 3 * p0[i])
               + n * n * d * (3 * p0[i] - 6 * p1[i] + 3 * p2[i])
               + n * n * n * (3 * p1[i] - p0[i] - 3 * p2[i] + p3[i]),
               d * d * d)]

\* Catmull with the member t passed as tt = <<num, den>>
Catmull(p0, p1, p2, p3, tt) ==
    LET n == tt[1]
        d == tt[2]
    IN [i \in 1..3 |->
          Quot(2 * p1[i] * d * d * d
               + n * d * d * (p2[i] - p0[i])
               + n * n * d * (2 * p0[i] - 5 * p1[i] + 4 * p2[i] - p3[i])
               + n * n * n * (3 * p1[i] - p0[i] - 3 * p2[i] + p3[i]),
               2 * d * d * d)]

\* a test that turns a LERP traversal round one node late
AtEnd_Late(mode, ind) ==
    CASE mode = "LERP" -> GeU(ind, Len(nodes))
      [] mode = "CATMULL" -> GeU(ind + 1, Len(nodes))
      [] OTHER -> GeU(ind + 3, Len(nodes))

\* a test that turns a BEZIER traversal round one node late
AtEnd_BezierLate(mode, ind) ==
    CASE mode = "LERP" -> GeU(ind, Len(nodes) - 1)
      [] mode = "CATMULL" -> GeU(ind + 1, Len(nodes))
      [] OTHER -> GeU(ind + 2, Len(nodes))

\* the test that turns a forward traversal round, for the index just advanced
AtEnd(mode, ind) ==
    CASE mode = "LERP" -> GeU(ind, Len(nodes) - 1)
      [] mode = "CATMULL" -> GeU(ind + 1, Len(nodes))
      [] OTHER -> GeU(ind + 3, Len(nodes))

\* A first part of a tick that carries the overshoot into the next segment
Advance_KeepOvershoot(deltaTime) ==
    LET elapsed == timer + deltaTime
    IN IF elapsed > duration
       THEN [timer |-> elapsed - duration, t |-> Frac(elapsed - duration, duration),
             currentInd |-> IF forward THEN currentInd + 1 ELSE currentInd - 1,
             forward |-> IF forward THEN ~AtEnd(currentMode, currentInd + 1)
                         ELSE currentInd - 1 = 0]
       ELSE [timer |-> elapsed, t |-> Frac(elapsed, duration),
             currentInd |-> currentInd, forward |-> forward]

\* A first part of a tick that goes from the last index straight to the first
Advance_Loop(deltaTime) ==
    LET elapsed == timer + deltaTime
    IN IF elapsed > duration
       THEN [timer |-> 0, t |-> Frac(0, 1),
             currentInd |-> IF AtEnd(currentMode, currentInd + 1) THEN 0
                            ELSE currentInd + 1,
             forward |-> TRUE]
       ELSE [timer |-> elapsed, t |-> Frac(elapsed, duration),
             currentInd |-> currentInd, forward |-> forward]

\* A first part of a tick that resets timer past t > 1 and leaves t
Advance_StaleT(deltaTime) ==
    LET elapsed == timer + deltaTime
    IN IF elapsed > duration
       THEN [timer |-> 0, t |-> Frac(elapsed, duration),
             currentInd |-> IF forward THEN currentInd + 1 ELSE currentInd - 1,
             forward |-> IF forward THEN ~AtEnd(currentMode, currentInd + 1)
                         ELSE currentInd - 1 = 0]
       ELSE [timer |-> elapsed, t |-> Frac(elapsed, duration),
             currentInd |-> currentInd, forward |-> forward]

\* A first part of a tick that steps over two segments when the tick is
\* longer than two durations
Advance_Skip(deltaTime) ==
    LET elapsed == timer + deltaTime
        by == IF elapsed > 2 * duration THEN 2 ELSE 1
    IN IF elapsed > duration
       THEN [timer |-> 0, t |-> Frac(0, 1),
             currentInd |-> IF forward THEN currentInd + by ELSE currentInd - by,
             forward |-> IF forward THEN ~AtEnd(currentMode, currentInd + by)
                         ELSE currentInd - by = 0]
       ELSE [timer |-> elapsed, t |-> Frac(elapsed, duration),
             currentInd |-> currentInd, forward |-> forward]

\* Advance that stops at the end of the segment instead of stepping on
Advance_Halt(deltaTime) ==
    LET elapsed == timer + deltaTime
    IN IF elapsed > duration
       THEN [timer |-> duration, t |-> Frac(1, 1),
             currentInd |-> currentInd, forward |-> forward]
       ELSE [timer |-> elapsed, t |-> Frac(elapsed, duration),
             currentInd |-> currentInd, forward |-> forward]

\* The first part of a tick, the same in the three modes but for AtEnd:
\* timer += deltaTime; t = timer / duration; past t > 1 both are reset and
\* the index steps on, turning round at an end.
Advance(deltaTime) ==
    LET elapsed == timer + deltaTime
    IN IF elapsed > duration
       THEN [timer |-> 0, t |-> Frac(0, 1),
             currentInd |-> IF forward THEN currentInd + 1 ELSE currentInd - 1,
             forward |-> IF forward THEN ~AtEnd(currentMode, currentInd + 1)
                         ELSE currentInd - 1 = 0]
       ELSE [timer |-> elapsed, t |-> Frac(elapsed, duration),
             currentInd |-> currentInd, forward |-> forward]

\* CATMULL and BEZIER return before they touch the position of a path of
\* fewer than 3 nodes
TooFewForSpline_Three == Len(nodes) < 3

\* CATMULL and BEZIER return before they touch the position of a path of
\* fewer than 4 nodes
TooFewForSpline == Len(nodes) < 4

\* Indices whose backward BEZIER segment reads the four points of the
\* forward segment at the same index, in reverse
Indices_SameFour(mode, ind, fwd) ==
    LET size == Len(nodes)
    IN CASE mode = "LERP" ->
              IF fwd THEN <<ind, ind + 1>> ELSE <<ind, ind - 1>>
         [] mode = "CATMULL" ->
              IF fwd
              THEN <<IF ind = 0 THEN size - 1 ELSE ind - 1, ind,
                     ModU(ind + 1, size), ModU(ind + 2, size)>>
              ELSE <<IF EqU(ind, size - 1) THEN 0 ELSE ind + 1, ind,
                     Abs(ind - 1) % size, Abs(ind - 2) % size>>
         [] OTHER ->
              IF fwd THEN <<ind, ind + 1, ind + 2, ind + 3>>
              ELSE <<ind + 3, ind + 2, ind + 1, ind>>

\* Indices taking the backward CATMULL points two and three by wrapping
\* below zero instead of by glm::abs
Indices_Mirrored(mode, ind, fwd) ==
    LET size == Len(nodes)
    IN CASE mode = "LERP" ->
              IF fwd THEN <<ind, ind + 1>> ELSE <<ind, ind - 1>>
         [] mode = "CATMULL" ->
              IF fwd
              THEN <<IF ind = 0 THEN size - 1 ELSE ind - 1, ind,
                     ModU(ind + 1, size), ModU(ind + 2, size)>>
              ELSE <<IF EqU(ind, size - 1) THEN 0 ELSE ind + 1, ind,
                     (ind - 1 + size) % size, (ind - 2 + size) % size>>
         [] OTHER ->
              IF fwd THEN <<ind, ind + 1, ind + 2, ind + 3>>
              ELSE <<ind + 2, ind + 1, ind, ind - 1>>

\* The indices (0-based, as ints converted to size_t: below zero is beyond
\* the list) of the nodes a tick reads, in the order point0, point1, ..
Indices(mode, ind, fwd) ==
    LET size == Len(nodes)
    IN CASE mode = "LERP" ->
              IF fwd THEN <<ind, ind + 1>> ELSE <<ind, ind - 1>>
         [] mode = "CATMULL" ->
              IF fwd
              THEN <<IF ind = 0 THEN size - 1 ELSE ind - 1, ind,
                     ModU(ind + 1, size), ModU(ind + 2, size)>>
              ELSE <<IF EqU(ind, size - 1) THEN 0 ELSE ind + 1, ind,
                     Abs(ind - 1) % size, Abs(ind - 2) % size>>
         [] OTHER ->
              IF fwd THEN <<ind, ind + 1, ind + 2, ind + 3>>
              ELSE <<ind + 2, ind + 1, ind, ind - 1>>

\* the position a tick computes from the points it read: Lerp in LERP,
\* Catmull in CATMULL and in BEZIER
Blend(pts, tt) ==
    IF Len(pts) = 2 THEN Lerp(pts[1], pts[2], tt)
    ELSE Catmull(pts[1], pts[2], pts[3], pts[4], tt)

\* Reading nodes[idx[1]], .. and SetPosition.  operator[] beyond the list is
\* undefined: the process faults, or the read yields whatever lies there and
\* the tick goes on with it.
Move(idx, tt) ==
    IF \A k \in 1..Len(idx) : InList(idx[k])
    THEN /\ platformPosition' = Blend([k \in 1..Len(idx) |-> nodes[idx[k] + 1]], tt)
         /\ wrote' = TRUE
         /\ outOfRange' = FALSE
         /\ UNCHANGED crashed
    ELSE /\ outOfRange' = TRUE
         /\ \/ /\ crashed' = TRUE
               /\ wrote' = FALSE
               /\ UNCHANGED platformPosition
            \/ /\ crashed' = FALSE
               /\ wrote' = TRUE
               /\ \E g \in [1..Len(idx) -> Garbage] :
                     platformPosition' =
                         Blend([k \in 1..Len(idx) |->
                                  IF InList(idx[k]) THEN nodes[idx[k] + 1] ELSE g[k]], tt)

PlatformUpdate(deltaTime) ==
    /\ ~crashed
    /\ currentInd > -MaxUnder
    /\ lastCall' = Call("MovingPlatform::Update", deltaTime, NULL)
    /\ IF Len(nodes) = 0 \/ duration = 0
       THEN /\ wrote' = FALSE
            /\ outOfRange' = FALSE
            /\ UNCHANGED <<timer, t, currentInd, forward, platformPosition, crashed>>
       ELSE /\ timer' = Advance(deltaTime).timer
            /\ t' = Advance(deltaTime).t
            /\ currentInd' = Advance(deltaTime).currentInd
            /\ forward' = Advance(deltaTime).forward
            /\ IF currentMode # "LERP" /\ TooFewForSpline
               THEN /\ wrote' = FALSE
                    /\ outOfRange' = FALSE
                    /\ UNCHANGED <<platformPosition, crashed>>
               ELSE Move(Indices(currentMode, Advance(deltaTime).currentInd,
                                 Advance(deltaTime).forward),
                         Advance(deltaTime).t)
    /\ UNCHANGED <<nodes, currentMode, nextInd, duration, boomerang>>

SetMode(inMode) ==
    /\ ~crashed
    /\ timer' = 0
    /\ currentMode' = inMode
    /\ currentInd' = 0
    /\ nextInd' = 1
    /\ wrote' = FALSE
    /\ outOfRange' = FALSE
    /\ lastCall' = Call("SetMode", inMode, NULL)
    /\ UNCHANGED <<nodes, duration, t, forward, platformPosition, crashed, boomerang>>

\* SetNodes that also starts the traversal again
SetNodes_Restart(inNodes, inDuration) ==
    /\ ~crashed
    /\ nodes' = inNodes
    /\ duration' = inDuration
    /\ currentInd' = 0
    /\ timer' = 0
    /\ wrote' = FALSE
    /\ outOfRange' = FALSE
    /\ lastCall' = Call("SetNodes", <<inNodes, inDuration>>, NULL)
    /\ UNCHANGED <<currentMode, nextInd, t, forward, platformPosition,
                   crashed, boomerang>>

SetNodes(inNodes, inDuration) ==
    /\ ~crashed
    /\ nodes' = inNodes
    /\ duration' = inDuration
    /\ wrote' = FALSE
    /\ outOfRange' = FALSE
    /\ lastCall' = Call("SetNodes", <<inNodes, inDuration>>, NULL)
    /\ UNCHANGED <<currentMode, currentInd, nextInd, timer, t, forward,
                   platformPosition, crashed, boomerang>>

\* One boomerang, newly created and left alone
BoomerangIdle ==
    /\ state = "INACTIVE"
    /\ targetLocked = FALSE
    /\ returning = FALSE
    /\ targetPoint = Zero
    /\ targetEntity = NULL
    /\ player = Awake(BoomerangName, Entities)
    /\ boomerangAcceleration = DefaultAcceleration
    /\ inactivePosition = DefaultInactivePosition
    /\ boomerangLaunchForce = DefaultLaunchForce
    /\ position = DefaultInactivePosition
    /\ velocity = Zero
    /\ applied = NoForce
    /\ nullDeref = FALSE
    /\ crashed = FALSE

\* A platform on which SetMode, SetNodes and Update are called in any order
InitPlatform ==
    /\ BoomerangIdle
    /\ MovingPlatformNew
    /\ lastCall = Call("MovingPlatform", NULL, NULL)
    /\ clock = 0
    /\ frameTime = NoFrame
    /\ PlayersNew

NextPlatform ==
    \/ \E m \in Modes : SetMode(m) /\ UNCHANGED <<game, players>>
    \/ \E ns \in ShortLists, d \in FewDurations : SetNodes(ns, d) /\ UNCHANGED <<game, players>>
    \/ \E dt \in FewTicks : PlatformUpdate(dt) /\ UNCHANGED <<game, players>>

SpecPlatform == InitPlatform /\ [][NextPlatform]_all

\* A platform set up once, as the scene does (Add<MovingPlatform>(),
\* SetMode(mode), SetNodes(nodes, duration)), then ticked by the game loop
InitRun ==
    /\ BoomerangIdle
    /\ \E m \in Modes, ns \in NodeLists, d \in Durations :
          /\ nodes = ns
          /\ duration = d
          /\ currentMode = m
          /\ lastCall = Call("SetNodes", <<ns, d>>, NULL)
    /\ currentInd = 0
    /\ nextInd = 1
    /\ timer = 0
    /\ t = Indeterminate
    /\ forward = TRUE
    /\ platformPosition = Placement
    /\ wrote = FALSE
    /\ outOfRange = FALSE
    /\ clock = 0
    /\ frameTime = NoFrame
    /\ PlayersNew

\* One iteration of the game loop: scene->Update(dt)
Frame(dt) ==
    /\ clock + dt <= MaxClock
    /\ PlatformUpdate(dt)
    /\ clock' = clock + dt
    /\ frameTime' = IF frameTime \in {NoFrame, dt} THEN dt ELSE Mixed
    /\ UNCHANGED players

NextRun == \E dt \in Ticks : Frame(dt)

SpecRun == InitRun /\ [][NextRun]_all

\* A LERP platform set up once and ticked for ever.  The game loop calls
\* scene->Update(dt) once per frame as long as the window is open, and dt,
\* the time since the last frame, is positive again and again.
InitLive == InitRun /\ currentMode = "LERP"

Tick(dt) == PlatformUpdate(dt) /\ UNCHANGED <<game, players>>

NextLive == \E dt \in Ticks : Tick(dt)

PositiveTick == \E dt \in Ticks \ {0} : Tick(dt)

SpecLive == InitLive /\ [][NextLive]_all /\ WF_all(PositiveTick)

----------------------------------------------------------------------------
(* PlayerControl of "Player 1", controller path *)

\* the player LockTarget is given: "Player 2" for player 1, else "Player 1"
Opponent(id) == IF id = 1 THEN "Player 2" ELSE "Player 1"

\* "Boomerang 1", the boomerang that PlayerControl of player 1 holds
Boomerang1 ==
    [state |-> state, targetLocked |-> targetLocked, returning |-> returning,
     targetPoint |-> targetPoint, targetEntity |-> targetEntity,
     position |-> position, velocity |-> velocity]

\* What throwWang makes of the boomerang b
Thrown(b, playerPosition, id, views) ==
    [b EXCEPT !.state = "FORWARD", !.targetLocked = FALSE, !.returning = FALSE,
              !.position = VAdd(playerPosition,
                                VScale(cameraLocalForward(views, id), projectileSpacing)),
              !.velocity = VScale(cameraLocalForward(views, id), boomerangLaunchForce)]

\* What UpdateTarget makes of the boomerang b as the frame found it
Targeted(b, newTarget) ==
    [b EXCEPT !.targetPoint = newTarget, !.state = UpdateTargetState]

\* What LockTarget makes of the boomerang b as the frame found it
Locked(b, entity) ==
    [b EXCEPT !.targetEntity = entity, !.targetLocked = TRUE, !.state = LockTargetState]

\* A frame that looks at the lock button before the point button
FirstCall_TargetFirst(Wang, Point, Target, hasHit) ==
    IF ~Wang THEN "none"
    ELSE IF getReadyToThrow THEN "throwWang"
    ELSE IF Target THEN "LockTarget"
    ELSE IF Point /\ hasHit THEN "UpdateTarget"
    ELSE "none"

\* The call the if (Wang) block makes on the boomerang: Wang, Point, Target
\* are the buttons X, Y, right bumper; hasHit is whether the ray from the
\* player hits anything
FirstCall(Wang, Point, Target, hasHit) ==
    IF ~Wang THEN "none"
    ELSE IF getReadyToThrow THEN "throwWang"
    ELSE IF Point THEN (IF hasHit THEN "UpdateTarget" ELSE "none")
    ELSE IF Target THEN "LockTarget"
    ELSE "none"

\* A recall that is dropped in a frame that made another call
Recalled_UnlessHandled(b, first, returnaloni) ==
    IF returnaloni /\ first = "none" THEN Parked(b) ELSE b

\* if (returnaloni) makeBoomerangInactive(), after the if (Wang) block
Recalled(b, first, returnaloni) ==
    IF returnaloni THEN Parked(b) ELSE b

\* the calls of a frame, in order
CallsOf(first, returnaloni) ==
    (IF first = "none" THEN <<>> ELSE <<first>>)
      \o (IF returnaloni THEN <<"makeBoomerangInactive">> ELSE <<>>)

\* PlayerControl::Update with a valid controller.  The sticks and the sprint
\* button move and turn the player, whose position and camera are inputs here.
PlayerControlUpdate(Wang, Point, Target, returnaloni, hasHit, point, playerPosition, views) ==
    LET first == FirstCall(Wang, Point, Target, hasHit)
        handled == CASE first = "throwWang" ->
                          Thrown(Boomerang1, playerPosition, controlPlayerID, views)
                     [] first = "UpdateTarget" -> Targeted(Boomerang1, point)
                     [] first = "LockTarget" ->
                          Locked(Boomerang1, Opponent(controlPlayerID))
                     [] OTHER -> Boomerang1
        left == Recalled(handled, first, returnaloni)
    IN /\ ~crashed
       /\ state' = left.state
       /\ targetLocked' = left.targetLocked
       /\ returning' = left.returning
       /\ targetPoint' = left.targetPoint
       /\ targetEntity' = left.targetEntity
       /\ position' = left.position
       /\ velocity' = left.velocity
       /\ justThrew' = (first = "throwWang")
       /\ frameCalls' = CallsOf(first, returnaloni)
       /\ lastCall' = Call("PlayerControl::Update",
                           <<Wang, Point, Target, returnaloni>>, NULL)
       /\ nullDeref' = FALSE
       /\ applied' = NoForce
       /\ UNCHANGED <<config, crashed, platform, game, boomerang2, health>>

\* A player with a controller, whose boomerang also runs into things
InitControl ==
    /\ BoomerangIdle
    /\ MovingPlatformNew
    /\ lastCall = Call("Awake", NULL, NULL)
    /\ clock = 0
    /\ frameTime = NoFrame
    /\ justThrew \in BOOLEAN
    /\ frameCalls = <<>>
    /\ Boomerang2New
    /\ HealthNew("Player 1")

NextControl ==
    \/ \E Wang \in BOOLEAN, Point \in BOOLEAN, Target \in BOOLEAN,
          returnaloni \in BOOLEAN, hasHit \in BOOLEAN, point \in Points,
          p \in Points, views \in [1..2 -> ViewColumns] :
          PlayerControlUpdate(Wang, Point, Target, returnaloni, hasHit, point, p, views)
    \/ OnCollisionEnter

SpecControl == InitControl /\ [][NextControl]_all

----------------------------------------------------------------------------
(* HealthManager *)

\* HealthManager::Awake: _enemyID is 2 on "Player 1" and 1 on any other object
enemyID == IF playerID = 1 THEN 2 ELSE 1

\* "Boomerang " + std::to_string(id)
BoomerangOf(id) == IF id = 1 THEN "Boomerang 1" ELSE "Boomerang 2"

\* names of the objects whose trigger volume and the player meet
TriggerNames == {"Boomerang 1", "Boomerang 2", "Ground"}

\* deltaTime of HealthManager::Update, in hundredths of a second
LongTicks == {60, 120}

\* the camera columns of the throws that precede a trigger entry
Ahead == [i \in 1..2 |-> <<-1, 0, 0>>]

\* What returnBoomerang makes of the boomerang b
Returned(b) ==
    [b EXCEPT !.returning = TRUE, !.targetLocked = TRUE, !.state = "RETURNING"]

\* _healthVal after an Update that takes 2 for a pending hit
Hurt_Twice(h, lose) == IF lose THEN h - 2 ELSE h

\* _healthVal after Update: if (_loseHealth) _healthVal -= 1.0f
Hurt(h, lose) == IF lose THEN h - 1 ELSE h

\* _damageScreenOpacity after Update: 1.0f after a hit, else it falls by
\* deltaTime / 1.2f down to 0
Faded(opacity, hit, deltaTime) ==
    IF hit THEN FullOpacity
    ELSE IF opacity > 0
         THEN (IF opacity - deltaTime < 0 THEN 0 ELSE opacity - deltaTime)
         ELSE opacity

\* Update that leaves _loseHealth as it is
StillPending_Kept == loseHealth

\* _loseHealth after Update
StillPending == FALSE

HealthUpdate(deltaTime) ==
    /\ ~crashed
    /\ loseHealth => healthVal > maxHealth - MaxLost
    /\ healthVal' = Hurt(healthVal, loseHealth)
    /\ damageScreenOpacity' = Faded(damageScreenOpacity, gotHit, deltaTime)
    /\ gotHit' = FALSE
    /\ loseHealth' = StillPending
    /\ hits' = 0
    /\ settledHits' = hits
    /\ lastCall' = Call("HealthManager::Update", deltaTime, NULL)
    /\ nullDeref' = FALSE
    /\ applied' = NoForce
    /\ UNCHANGED <<ctrl, config, body, crashed, platform, game, control, boomerang2,
                   playerID>>

\* a test that takes either boomerang for the enemy's
HitBy_Any(name) == name \in {"Boomerang 1", "Boomerang 2"}

\* the first test of OnEnteredTrigger: the object is the enemy's boomerang
HitBy(name) == name = BoomerangOf(enemyID)

\* the second test of OnEnteredTrigger: the object is the player's boomerang
Caught(name) == ~HitBy(name) /\ name = BoomerangOf(playerID)

OnEnteredTrigger(name) ==
    /\ ~crashed
    /\ name = BoomerangOf(enemyID) => hits < MaxHits
    /\ hits' = IF name = BoomerangOf(enemyID) THEN hits + 1 ELSE hits
    /\ loseHealth' = (HitBy(name) \/ loseHealth)
    /\ gotHit' = (HitBy(name) \/ gotHit)
    /\ CASE HitBy(name) /\ name = "Boomerang 1" ->
               DoReturnBoomerang /\ UNCHANGED <<body, boomerang2>>
         [] HitBy(name) /\ name # "Boomerang 1" ->
               /\ boomerang2' = Returned(boomerang2)
               /\ UNCHANGED <<state, targetLocked, returning, body>>
         [] Caught(name) /\ name = "Boomerang 1" ->
               /\ position' = Parked(Boomerang).position
               /\ state' = Parked(Boomerang).state
               /\ velocity' = Parked(Boomerang).velocity
               /\ UNCHANGED <<targetLocked, returning, boomerang2>>
         [] Caught(name) /\ name # "Boomerang 1" ->
               /\ boomerang2' = Parked(boomerang2)
               /\ UNCHANGED <<state, targetLocked, returning, body>>
         [] OTHER ->
               UNCHANGED <<state, targetLocked, returning, body, boomerang2>>
    /\ lastCall' = Call("OnEnteredTrigger", name, NULL)
    /\ nullDeref' = FALSE
    /\ applied' = NoForce
    /\ UNCHANGED <<targetPoint, targetEntity, config, crashed, platform, game, control,
                   playerID, healthVal, damageScreenOpacity, settledHits>>

ResetHealth ==
    /\ ~crashed
    /\ healthVal' = maxHealth
    /\ lastCall' = Call("ResetHealth", NULL, NULL)
    /\ nullDeref' = FALSE
    /\ applied' = NoForce
    /\ UNCHANGED <<ctrl, config, body, crashed, platform, game, control, boomerang2,
                   playerID, loseHealth, gotHit, damageScreenOpacity, hits, settledHits>>

\* The HealthManager of either player, with boomerang 1 thrown, aimed, locked
\* and recalled by its player
InitHealth ==
    /\ BoomerangIdle
    /\ MovingPlatformNew
    /\ lastCall = Call("Awake", NULL, NULL)
    /\ clock = 0
    /\ frameTime = NoFrame
    /\ ControlNew
    /\ Boomerang2New
    /\ \E name \in Entities : HealthNew(name)

NextHealth ==
    \/ \E dt \in LongTicks : HealthUpdate(dt)
    \/ \E name \in TriggerNames : OnEnteredTrigger(name)
    \/ ResetHealth
    \/ throwWang(Zero, controlPlayerID, Ahead)
    \/ UpdateTarget(Zero)
    \/ LockTarget(Opponent(controlPlayerID))
    \/ makeBoomerangInactive

SpecHealth == InitHealth /\ [][NextHealth]_all

----------------------------------------------------------------------------
(* Properties *)

\* The operation of the step that led to the current state
Called(op) == lastCall.op = op

\* C1: a LockTarget(entity) call made while the state is RETURNING leaves the
\* state RETURNING, stores the entity and sets targetLocked.
C1_GuardedLock ==
    [][Called("LockTarget")' /\ state = "RETURNING"
         => /\ state' = "RETURNING"
            /\ targetLocked' = TRUE
            /\ targetEntity' = lastCall'.arg]_vars

\* LockTarget has been called on a returning boomerang
C1_Witness ==
    /\ Called("LockTarget")
    /\ state = "RETURNING"
    /\ targetEntity = "Player 2"

\* C2: once targetLocked is true it stays true until throwWang is called, and
\* until then no step - UpdateTarget called by the player or by Update
\* included - changes the state to POINTTRACK; UpdateTarget and Update leave
\* the state as it is.
C2_GuardedPointUpdate ==
    [][targetLocked /\ ~Called("throwWang")'
         => /\ targetLocked' = TRUE
            /\ state' # "POINTTRACK"
            /\ (Called("UpdateTarget")' \/ Called("Update")' => state' = state)]_vars

\* UpdateTarget has been called on a locked boomerang
C2_Witness ==
    /\ Called("UpdateTarget")
    /\ targetLocked
    /\ state = "LOCKTRACK"

\* C3: while the state is INACTIVE, UpdateTarget, LockTarget, returnBoomerang,
\* OnCollisionEnter and Update all leave the state INACTIVE.
C3_InactiveLeftOnlyByThrow ==
    [][(/\ state = "INACTIVE"
        /\ lastCall'.op \in {"UpdateTarget", "LockTarget", "returnBoomerang",
                             "OnCollisionEnter", "Update"})
         => state' = "INACTIVE"]_vars

\* C4: throwWang(origin, player) leaves state FORWARD and both flags false,
\* places the boomerang at origin + cameraForward * projectileSpacing and sets
\* its velocity to cameraForward * launchForce, cameraForward being minus the
\* third view column of the camera of that player.
C4_ThrowWang ==
    [][Called("throwWang")'
         => LET origin == lastCall'.arg[1]
                column == lastCall'.arg[3][IF lastCall'.arg[2] = 1 THEN 1 ELSE 2]
                cameraForward == <<-column[1], -column[2], -column[3]>>
            IN /\ state' = "FORWARD"
               /\ targetLocked' = FALSE
               /\ returning' = FALSE
               /\ position' = <<origin[1] + cameraForward[1] * projectileSpacing,
                                origin[2] + cameraForward[2] * projectileSpacing,
                                origin[3] + cameraForward[3] * projectileSpacing>>
               /\ velocity' = <<cameraForward[1] * boomerangLaunchForce,
                                cameraForward[2] * boomerangLaunchForce,
                                cameraForward[3] * boomerangLaunchForce>>]_vars

\* Player 2 has thrown, with a launch force other than 1 and the two cameras
\* looking different ways, a boomerang that had been locked onto an entity
C4_Witness ==
    /\ Called("throwWang")
    /\ lastCall.arg[2] = 2
    /\ lastCall.arg[3][1] # lastCall.arg[3][2]
    /\ boomerangLaunchForce = 2
    /\ state = "FORWARD"
    /\ targetEntity # NULL

\* C5: returnBoomerang leaves returning and targetLocked true and the state
\* RETURNING, and changes neither targetPoint nor targetEntity.
C5_ReturnBoomerang ==
    [][Called("returnBoomerang")'
         => /\ returning' = TRUE
            /\ targetLocked' = TRUE
            /\ state' = "RETURNING"
            /\ UNCHANGED <<targetPoint, targetEntity>>]_vars

\* returnBoomerang has been called on a boomerang with a target entity
C5_Witness ==
    /\ Called("returnBoomerang")
    /\ state = "RETURNING"
    /\ targetEntity = "Player 2"
    /\ targetPoint # Zero

\* C6: LockTarget(entity) called while returning is false stores the entity,
\* sets targetLocked and leaves the state LOCKTRACK.
C6_LockTarget ==
    [][Called("LockTarget")' /\ ~returning
         => /\ targetEntity' = lastCall'.arg
            /\ targetLocked' = TRUE
            /\ state' = "LOCKTRACK"]_vars

\* LockTarget has locked a thrown boomerang onto Player 2
C6_Witness ==
    /\ Called("LockTarget")
    /\ ~returning
    /\ state = "LOCKTRACK"
    /\ targetEntity = "Player 2"
    /\ position # inactivePosition

\* C7: OnCollisionEnter moves the state to RETURNING when the state is not
\* INACTIVE, and leaves an INACTIVE boomerang INACTIVE and ready to throw.
C7_ReturnOnHit ==
    [][Called("OnCollisionEnter")'
         => IF state # "INACTIVE" THEN state' = "RETURNING"
            ELSE state' = "INACTIVE" /\ getReadyToThrow']_vars

\* C8: a new boomerang is INACTIVE; getReadyToThrow returns true exactly when
\* the state is INACTIVE, and changes none of state, targetLocked, returning,
\* targetPoint and targetEntity.
C8_ReadyToThrow ==
    /\ state = "INACTIVE"
    /\ [][Called("getReadyToThrow")'
            => /\ lastCall'.ret = (state = "INACTIVE")
               /\ UNCHANGED ctrl]_vars

\* getReadyToThrow has answered true for a boomerang parked after a return
C8_Witness ==
    /\ Called("getReadyToThrow")
    /\ lastCall.ret = TRUE
    /\ returning

\* C9: makeBoomerangInactive leaves the state INACTIVE, the position equal to
\* inactivePosition and the velocity zero, and applying it again to the
\* result changes nothing.
C9_InactiveIdempotent ==
    [][Called("makeBoomerangInactive")'
         => /\ state' = "INACTIVE"
            /\ position' = inactivePosition'
            /\ velocity' = Zero
            /\ (Parked(Boomerang) = Boomerang)'
            /\ Parked(Parked(Boomerang)) = Parked(Boomerang)]_vars

\* makeBoomerangInactive has parked a boomerang that was returning
C9_Witness ==
    /\ Called("makeBoomerangInactive")
    /\ state = "INACTIVE"
    /\ returning
    /\ targetLocked

\* C10: an Update tick in LOCKTRACK with a null targetEntity, or in RETURNING
\* with a null owner, dereferences no null reference, does not fault, applies
\* no steering force and leaves state and flags unchanged.
C10_MissingReferenceSkipsSteering ==
    [][(/\ Called("Update")'
        /\ \/ state = "LOCKTRACK" /\ targetEntity = NULL
           \/ state = "RETURNING" /\ player = NULL)
         => /\ nullDeref' = FALSE
            /\ crashed' = FALSE
            /\ applied' = NoForce
            /\ UNCHANGED <<state, targetLocked, returning>>]_vars

\* C11: Seek never normalizes a zero velocity: an Update tick that steers a
\* boomerang whose velocity is exactly zero towards a point other than its
\* own position applies a well-defined force, without NaN.
C11_SeekZeroVelocityDefined ==
    /\ Called("Update")
    /\ state \in {"POINTTRACK", "LOCKTRACK", "RETURNING"}
    /\ velocity = Zero
    /\ targetPoint # position
    /\ applied # NoForce
    => ~IsNaN(applied)

\* C12: after an Update tick in LOCKTRACK targetPoint is the position of
\* targetEntity at that tick, after one in RETURNING it is the position of
\* the owner, and a tick in POINTTRACK or FORWARD leaves targetPoint as it
\* was (the references being valid).
C12_TargetRefresh ==
    [][Called("Update")'
         => /\ (state = "LOCKTRACK" /\ targetEntity # NULL
                   => targetPoint' = lastCall'.arg[2][targetEntity])
            /\ (state = "RETURNING" /\ player # NULL
                   => targetPoint' = lastCall'.arg[2][player])
            /\ (state \in {"POINTTRACK", "FORWARD"}
                   => targetPoint' = targetPoint)]_vars

\* a returning boomerang has ticked while its owner and its target entity
\* stood at different places, after having tracked that entity
C12_Witness ==
    /\ Called("Update")
    /\ state = "RETURNING"
    /\ player = "Player 1"
    /\ targetEntity = "Player 2"
    /\ Len(lastCall.arg) = 2
    /\ lastCall.arg[2]["Player 1"] # lastCall.arg[2]["Player 2"]
    /\ targetPoint = lastCall.arg[2]["Player 1"]

\* C13: an Update tick in INACTIVE puts the boomerang at inactivePosition,
\* sets its velocity to zero and applies no steering force.
C13_InactiveTickParks ==
    [][Called("Update")' /\ state = "INACTIVE"
         => /\ position' = inactivePosition
            /\ velocity' = Zero
            /\ applied' = NoForce]_vars

\* a 2-node LERP path of non-zero duration ticked with equal frames that
\* divide the duration
TwoNodeRun ==
    /\ currentMode = "LERP"
    /\ Len(nodes) = 2
    /\ duration > 0
    /\ frameTime > 0
    /\ duration % frameTime = 0

\* C14 as stated: on a 2-node LERP path [A, B] of duration D ticked with
\* equal frames that divide D, the platform is at B once D has elapsed and
\* back at A once 2D has elapsed.
C14_RoundTripIn2D ==
    TwoNodeRun
    => /\ (clock = duration => platformPosition = nodes[2])
       /\ (clock = 2 * duration => platformPosition = nodes[1])

\* C14: on a 2-node LERP path [A, B] of duration D ticked with equal frames
\* dt that divide D, the platform is at (1 - e/D) A + (e/D) B after e <= D has
\* elapsed, hence at B once D has elapsed; the next frame turns the traversal
\* round and writes B again; and the platform is back at A once 2D + dt has
\* elapsed.
C14_RoundTrip ==
    TwoNodeRun
    => /\ (0 < clock /\ clock <= duration
             => /\ forward
                /\ platformPosition =
                     [i \in 1..3 |-> Quot((duration - clock) * nodes[1][i]
                                          + clock * nodes[2][i], duration)])
       /\ (clock = duration => platformPosition = nodes[2])
       /\ (clock = duration + frameTime => platformPosition = nodes[2] /\ ~forward)
       /\ (clock = 2 * duration + frameTime => platformPosition = nodes[1])

\* a 2-node path of duration 3 has been followed there and back with frames
\* of one time unit
C14_Witness ==
    /\ TwoNodeRun
    /\ duration = 3
    /\ frameTime = 1
    /\ clock = 2 * duration + frameTime
    /\ ~forward
    /\ platformPosition = nodes[1]

\* the segment a LERP tick evaluates: from nodes[currentInd] to the node
\* after it (forward) or before it (backward), as 0-based indices
Segment == <<currentInd, IF forward THEN currentInd + 1 ELSE currentInd - 1>>

\* C15: on a 3-node LERP path ticked from its initial state the segments
\* followed are (P0,P1), (P1,P2), (P2,P1), (P1,P0) and over again: a tick
\* keeps the segment or moves on to the next one of that cycle, and forward
\* changes exactly on the ticks that arrive at index 0 or at index 2.
C15_SegmentCycle ==
    /\ (currentMode = "LERP" /\ Len(nodes) = 3 => Segment = <<0, 1>>)
    /\ [][currentMode = "LERP" /\ Len(nodes) = 3
            => \/ Segment' = Segment /\ forward' = forward
               \/ /\ Segment' = CASE Segment = <<0, 1>> -> <<1, 2>>
                                  [] Segment = <<1, 2>> -> <<2, 1>>
                                  [] Segment = <<2, 1>> -> <<1, 0>>
                                  [] OTHER -> <<0, 1>>
                  /\ Segment \in {<<0, 1>>, <<1, 2>>, <<2, 1>>, <<1, 0>>}
                  /\ (forward' # forward <=> currentInd' \in {0, 2})]_all

\* a 3-node LERP path has been followed to its far end and back to its
\* first segment
C15_Witness ==
    /\ currentMode = "LERP"
    /\ Len(nodes) = 3
    /\ duration > 0
    /\ Segment = <<0, 1>>
    /\ clock > 3 * duration
    /\ wrote

\* C16: an Update tick in CATMULL or BEZIER mode on a path of fewer than 4
\* nodes does not set the position of the platform.
C16_ShortSplineNotMoved ==
    [][(/\ Called("MovingPlatform::Update")'
        /\ currentMode \in {"CATMULL", "BEZIER"}
        /\ Len(nodes) < 4)
         => /\ ~wrote'
            /\ platformPosition' = platformPosition]_all

\* a CATMULL platform with 3 nodes and a non-zero duration, moved earlier in
\* another mode, has ticked
C16_Witness ==
    /\ Called("MovingPlatform::Update")
    /\ currentMode = "CATMULL"
    /\ Len(nodes) = 3
    /\ duration > 0
    /\ timer > 0
    /\ platformPosition # Placement
    /\ ~wrote

\* C17: an Update tick on a path of fewer than 2 nodes, or of duration 0,
\* does not move the platform in any mode, reads no node outside the list
\* and does not fault.
C17_DegeneratePathIgnored ==
    [][(/\ Called("MovingPlatform::Update")'
        /\ (Len(nodes) < 2 \/ duration = 0))
         => /\ ~wrote'
            /\ platformPosition' = platformPosition
            /\ ~outOfRange'
            /\ ~crashed']_all

\* C18: SetMode(mode) leaves timer = 0, currentInd = 0 and forward = true and
\* selects the mode, whatever the direction of travel before the call.
C18_SetModeRestarts ==
    [][Called("SetMode")'
         => /\ timer' = 0
            /\ currentInd' = 0
            /\ forward' = TRUE
            /\ currentMode' = lastCall'.arg]_all

\* C19: SetNodes(nodes, duration) replaces the list and the duration and
\* leaves currentInd, timer, forward and the mode unchanged.
C19_SetNodesFrame ==
    [][Called("SetNodes")'
         => /\ nodes' = lastCall'.arg[1]
            /\ duration' = lastCall'.arg[2]
            /\ UNCHANGED <<currentInd, timer, forward, currentMode>>]_all

\* SetNodes has replaced the list of a platform half way along a backward
\* segment
C19_Witness ==
    /\ Called("SetNodes")
    /\ currentInd > 0
    /\ timer > 0
    /\ ~forward
    /\ Len(nodes) = 1
    /\ platformPosition # Placement

\* C20: an Update tick in LERP mode on a path of at least 2 nodes and
\* non-zero duration sets the position to (1 - t) p0 + t p1, p0 and p1 being
\* the ends of the current segment (both in the list) and t = timer / duration.
C20_LerpEvaluation ==
    [][(/\ Called("MovingPlatform::Update")'
        /\ currentMode = "LERP"
        /\ Len(nodes) >= 2
        /\ duration # 0
        /\ InList(Segment[1])'
        /\ InList(Segment[2])')
         => /\ wrote'
            /\ t' = Frac(timer', duration)
            /\ platformPosition' =
                 [i \in 1..3 |->
                    Quot((duration - timer') * nodes[Segment'[1] + 1][i]
                         + timer' * nodes[Segment'[2] + 1][i], duration)]]_all

\* the path (0,0,0), (10,0,0) of duration 2 has been ticked for 1 time unit
\* in all and the platform is at (5,0,0)
C20_Witness ==
    /\ Called("MovingPlatform::Update")
    /\ currentMode = "LERP"
    /\ nodes = <<<<0, 0, 0>>, <<1000, 0, 0>>>>
    /\ duration = 2
    /\ timer = 1
    /\ forward
    /\ platformPosition = <<500, 0, 0>>

\* a path with enough nodes for its mode (2 in LERP, 4 in CATMULL and in
\* BEZIER) and a positive duration
ValidPath ==
    /\ duration > 0
    /\ Len(nodes) >= (IF currentMode = "LERP" THEN 2 ELSE 4)

\* C21: on a platform set up once with enough nodes for its mode and a
\* positive duration, whatever the ticks, no Update reads a node outside the
\* list: the indices of the points it reads all lie in 0 .. nodes.size() - 1.
C21_IndicesInList ==
    ValidPath
    => /\ ~outOfRange
       /\ ~crashed
       /\ \A k \in 1..Len(Indices(currentMode, currentInd, forward)) :
             InList(Indices(currentMode, currentInd, forward)[k])

\* a BEZIER platform with 5 nodes has gone to its far end and is on its way
\* back, just past a segment boundary
C21_Witness ==
    /\ ValidPath
    /\ currentMode = "BEZIER"
    /\ Len(nodes) = 5
    /\ ~forward
    /\ currentInd = 1
    /\ timer = 0
    /\ wrote

\* the points a tick has read at the 0-based indices idx
PointsAt(idx) == [k \in 1..Len(idx) |-> nodes[idx[k] + 1]]

\* the direction BEZIER takes on a tick that crosses a segment boundary
BezierTurns ==
    currentInd' # currentInd
    => forward' = IF forward THEN ~(currentInd' + 3 >= Len(nodes))
                  ELSE currentInd' = 0

\* C22 as stated: a BEZIER tick on a path of at least 4 nodes evaluates the
\* Catmull-Rom basis on nodes[i], nodes[i+1], nodes[i+2], nodes[i+3] when
\* forward at index i and on those same four points in reverse when backward
\* at index i; forward is cleared when currentInd + 3 >= nodes.size() and set
\* when currentInd = 0.
C22_BezierSameFour ==
    [][(/\ Called("MovingPlatform::Update")'
        /\ currentMode = "BEZIER"
        /\ ValidPath)
         => LET i == currentInd'
                idx == IF forward' THEN <<i, i + 1, i + 2, i + 3>>
                       ELSE <<i + 3, i + 2, i + 1, i>>
            IN /\ \A k \in 1..4 : InList(idx[k])
               /\ platformPosition' =
                    Catmull(PointsAt(idx)[1], PointsAt(idx)[2],
                            PointsAt(idx)[3], PointsAt(idx)[4], t')
               /\ BezierTurns]_all

\* C22: a BEZIER tick on a path of at least 4 nodes evaluates the Catmull-Rom
\* basis on nodes[i], nodes[i+1], nodes[i+2], nodes[i+3] when forward at index
\* i and on nodes[i+2], nodes[i+1], nodes[i], nodes[i-1] when backward at
\* index i; forward is cleared when currentInd + 3 >= nodes.size() and set
\* when currentInd = 0.
C22_BezierSelection ==
    [][(/\ Called("MovingPlatform::Update")'
        /\ currentMode = "BEZIER"
        /\ ValidPath)
         => LET i == currentInd'
                idx == IF forward' THEN <<i, i + 1, i + 2, i + 3>>
                       ELSE <<i + 2, i + 1, i, i - 1>>
            IN /\ \A k \in 1..4 : InList(idx[k])
               /\ wrote'
               /\ platformPosition' =
                    Catmull(PointsAt(idx)[1], PointsAt(idx)[2],
                            PointsAt(idx)[3], PointsAt(idx)[4], t')
               /\ BezierTurns]_all

\* a BEZIER platform with 5 nodes is half way along the backward segment at
\* index 2
C22_Witness ==
    /\ Called("MovingPlatform::Update")
    /\ currentMode = "BEZIER"
    /\ Len(nodes) = 5
    /\ duration = 2
    /\ ~forward
    /\ currentInd = 2
    /\ timer = 1
    /\ wrote

\* C23: a step that takes the state out of RETURNING is a call of
\* makeBoomerangInactive, to INACTIVE, or of throwWang, to FORWARD;
\* UpdateTarget, LockTarget, returnBoomerang, OnCollisionEnter and Update
\* leave a RETURNING boomerang RETURNING.
C23_ReturnNotOverridden ==
    [][state = "RETURNING" /\ state' # "RETURNING"
         => \/ Called("makeBoomerangInactive")' /\ state' = "INACTIVE"
            \/ Called("throwWang")' /\ state' = "FORWARD"]_vars

\* UpdateTarget has been called with a new point on a returning boomerang
C23_Witness ==
    /\ Called("UpdateTarget")
    /\ state = "RETURNING"
    /\ returning
    /\ targetPoint = lastCall.arg
    /\ targetPoint # Zero

\* C24: from FORWARD, UpdateTarget leaves the state POINTTRACK, LockTarget
\* leaves it LOCKTRACK and OnCollisionEnter leaves it RETURNING; an Update
\* tick leaves it FORWARD and applies the anti-gravity force only.
C24_ForwardTransitions ==
    [][state = "FORWARD"
         => /\ (Called("UpdateTarget")' => state' = "POINTTRACK")
            /\ (Called("LockTarget")' => state' = "LOCKTRACK")
            /\ (Called("OnCollisionEnter")' => state' = "RETURNING")
            /\ (Called("Update")' => state' = "FORWARD" /\ applied' = defyGravity)]_vars

\* a thrown boomerang that has moved since the throw has ticked
C24_Witness ==
    /\ Called("Update")
    /\ state = "FORWARD"
    /\ applied = defyGravity
    /\ velocity = Zero

\* C25: returning implies targetLocked; in FORWARD and POINTTRACK both flags
\* are false, in LOCKTRACK targetLocked is true and returning false, in
\* RETURNING both are true.
C25_FlagsMatchState ==
    /\ (returning => targetLocked)
    /\ (state \in {"FORWARD", "POINTTRACK"} => ~targetLocked /\ ~returning)
    /\ (state = "LOCKTRACK" => targetLocked /\ ~returning)
    /\ (state = "RETURNING" => targetLocked /\ returning)

\* a boomerang at its parking spot has been hit and is RETURNING with both
\* flags set
C25_Witness ==
    /\ Called("OnCollisionEnter")
    /\ state = "RETURNING"
    /\ position = inactivePosition
    /\ returning
    /\ targetLocked

\* C26: an Update tick changes none of state, targetLocked, returning and
\* targetEntity, whatever the state, deltaTime and the positions read.
C26_UpdateKeepsState ==
    [][Called("Update")'
         => UNCHANGED <<state, targetLocked, returning, targetEntity>>]_vars

\* a boomerang locked onto Player 2 has ticked and taken its position as the
\* target point
C26_Witness ==
    /\ Called("Update")
    /\ state = "LOCKTRACK"
    /\ targetEntity = "Player 2"
    /\ Len(lastCall.arg) = 2
    /\ targetPoint = lastCall.arg[2]["Player 2"]
    /\ lastCall.arg[1] = MaxDt

\* C27: an Update tick in CATMULL or BEZIER mode on a path of 1 to 3 nodes
\* and non-zero duration changes none of the platform's position,
\* currentInd, forward and timer.
C27_ShortSplineTickNoOp ==
    [][(/\ Called("MovingPlatform::Update")'
        /\ currentMode \in {"CATMULL", "BEZIER"}
        /\ Len(nodes) \in 1..3
        /\ duration # 0)
         => UNCHANGED <<platformPosition, currentInd, forward, timer>>]_all

\* the last index a traversal reaches: nodes.size() - 1 in LERP and CATMULL,
\* nodes.size() - 3 in BEZIER
LastIndex == IF currentMode = "BEZIER" THEN Len(nodes) - 3 ELSE Len(nodes) - 1

\* C28: on a platform set up once with a valid path, currentInd changes only
\* on a tick that takes t past 1, by +1 when forward and by -1 when backward;
\* it stays within 0 .. LastIndex, and forward changes only on a tick that
\* brings currentInd to 0 or to LastIndex.
C28_PingPong ==
    /\ (ValidPath => currentInd = 0 /\ forward)
    /\ [][ValidPath
            => /\ (currentInd' # currentInd
                     => /\ timer + lastCall'.arg > duration
                        /\ currentInd' = currentInd + (IF forward THEN 1 ELSE -1))
               /\ currentInd' \in 0..LastIndex
               /\ (forward' # forward
                     => /\ currentInd' # currentInd
                        /\ currentInd' \in {0, LastIndex})]_all

\* a CATMULL platform with 4 nodes has gone to its last index and come back
\* to its first
C28_Witness ==
    /\ ValidPath
    /\ currentMode = "CATMULL"
    /\ Len(nodes) = 4
    /\ currentInd = 0
    /\ forward
    /\ clock > 2 * duration
    /\ wrote

\* C29: when Update has set the position, on a path of positive duration,
\* the t it used lies in [0, 1].
C29_ParameterInUnitInterval ==
    Called("MovingPlatform::Update") /\ wrote /\ duration > 0
    => t[2] > 0 /\ 0 <= t[1] /\ t[1] <= t[2]

\* a tick has set the position with t = 2/3, after a tick that took t past 1
C29_Witness ==
    /\ Called("MovingPlatform::Update")
    /\ wrote
    /\ t = <<2, 3>>
    /\ currentInd = 1

\* C30: an Update, however long its deltaTime, changes currentInd by at most
\* 1; a tick that changes it leaves timer and t at exactly 0 and, when it
\* sets the position from points in the list, sets it to the point at which
\* the new segment starts (point0 in LERP, point1 of the Catmull-Rom basis in
\* CATMULL and BEZIER).
C30_OneSegmentPerTick ==
    [][Called("MovingPlatform::Update")'
         => /\ Abs(currentInd' - currentInd) <= 1
            /\ (currentInd' # currentInd
                  => /\ timer' = 0
                     /\ t' = <<0, 1>>
                     /\ (wrote' /\ ~outOfRange'
                           => platformPosition' =
                                PointsAt(Indices(currentMode, currentInd', forward'))
                                    [IF currentMode = "LERP" THEN 1 ELSE 2]))]_all

\* a tick as long as two durations has taken a CATMULL platform from index 1
\* to index 2 and put it on nodes[2]
C30_Witness ==
    /\ Called("MovingPlatform::Update")
    /\ lastCall.arg = 2
    /\ duration = 1
    /\ currentMode = "CATMULL"
    /\ Len(nodes) = 5
    /\ currentInd = 2
    /\ forward
    /\ timer = 0
    /\ wrote
    /\ platformPosition = nodes[3]

\* C31: on a platform set up once with a valid path, the position a tick
\* that crosses a segment boundary sets (the new segment at t = 0) is the
\* position the basis gives at t = 1 on the points of the segment left, in
\* the three modes, whether or not the tick turns the traversal round.
C31_NoTeleport ==
    [][ValidPath /\ currentInd' # currentInd
         => platformPosition' =
              Blend(PointsAt(Indices(currentMode, currentInd, forward)), <<1, 1>>)]_all

\* a BEZIER platform with 5 nodes has just turned round at its last index
C31_Witness ==
    /\ Called("MovingPlatform::Update")
    /\ ValidPath
    /\ currentMode = "BEZIER"
    /\ Len(nodes) = 5
    /\ ~forward
    /\ currentInd = 2
    /\ timer = 0
    /\ wrote
    /\ platformPosition = nodes[4]

\* C32: on a platform set up once with a valid path, a tick that sets the
\* position at t = 0 sets it to nodes[currentInd], in the three modes and in
\* both directions.
C32_AnchorAtSegmentStart ==
    [][(/\ Called("MovingPlatform::Update")'
        /\ ValidPath
        /\ wrote'
        /\ t' = <<0, 1>>)
         => platformPosition' = nodes[currentInd' + 1]]_all

\* C33: on a CATMULL platform with n >= 4 nodes and a positive duration, a
\* tick that leaves the anchor at a node index i sets the position to the
\* Catmull value at t of p0 = nodes[i-1] (nodes[n-1] when i = 0),
\* p1 = nodes[i], p2 = nodes[(i+1) mod n], p3 = nodes[(i+2) mod n] when going
\* forward, and of p0 = nodes[i+1] (nodes[0] when i = n-1), p1 = nodes[i],
\* p2 = nodes[|i-1| mod n], p3 = nodes[|i-2| mod n] when going backward; the
\* position is p1 at t = 0 and p2 at t = 1.
C33_CatmullSelection ==
    [][(/\ Called("MovingPlatform::Update")'
        /\ ValidPath
        /\ currentMode = "CATMULL"
        /\ currentInd' \in 0..(Len(nodes) - 1)
        /\ wrote')
         => LET n == Len(nodes)
                i == currentInd'
                sel == IF forward'
                       THEN <<IF i = 0 THEN n - 1 ELSE i - 1, i,
                              (i + 1) % n, (i + 2) % n>>
                       ELSE <<IF i = n - 1 THEN 0 ELSE i + 1, i,
                              Abs(i - 1) % n, Abs(i - 2) % n>>
                p == [k \in 1..4 |-> nodes[sel[k] + 1]]
            IN /\ platformPosition' = Catmull(p[1], p[2], p[3], p[4], t')
               /\ t' = <<0, 1>> => platformPosition' = p[2]
               /\ t' = <<1, 1>> => platformPosition' = p[3]]_all

\* a CATMULL platform with 4 nodes going backward from anchor 1, half way
\* through the segment
C33_Witness ==
    /\ Called("MovingPlatform::Update")
    /\ ValidPath
    /\ currentMode = "CATMULL"
    /\ Len(nodes) = 4
    /\ ~forward
    /\ currentInd = 1
    /\ timer = 1
    /\ duration = 2
    /\ wrote

\* a LERP path of at least 2 nodes with a positive duration
ValidLerp == currentMode = "LERP" /\ Len(nodes) >= 2 /\ duration > 0

\* C34: on a LERP platform with at least 2 nodes and a positive duration
\* that is ticked with a positive deltaTime again and again, every node index
\* 0..n-1 is the anchor again and again, and the direction is forward again
\* and again and backward again and again.
C34_EveryNodeForEver ==
    /\ \A i \in 0..(MaxNodes - 1) :
          []<>(ValidLerp /\ i < Len(nodes) => currentInd = i)
    /\ []<>(ValidLerp => forward)
    /\ []<>(ValidLerp => ~forward)

\* a LERP platform with 3 nodes is back at its first node, going forward
C34_Witness ==
    /\ Called("MovingPlatform::Update")
    /\ lastCall.arg > 0
    /\ ValidLerp
    /\ Len(nodes) = 3
    /\ forward
    /\ currentInd = 0
    /\ timer = 0
    /\ wrote

\* the calls a frame of PlayerControl::Update makes out of throwWang,
\* UpdateTarget and LockTarget
Handling(calls) ==
    {k \in 1..Len(calls) : calls[k] \in {"throwWang", "UpdateTarget", "LockTarget"}}

\* C35: in a frame of PlayerControl::Update on the controller path, throwWang
\* is called only if getReadyToThrow() is true in that frame; UpdateTarget and
\* LockTarget are called only if the boomerang is not INACTIVE and the throw
\* button is held; at most one of the three is called, LockTarget only if
\* the point button is up; and _justThrew ends the frame true exactly when
\* throwWang was called in it.
C35_OneHandlerPerFrame ==
    [][Called("PlayerControl::Update")'
         => LET calls == frameCalls'
                made(op) == \E k \in 1..Len(calls) : calls[k] = op
                Wang == lastCall'.arg[1]
                Point == lastCall'.arg[2]
            IN /\ made("throwWang") => getReadyToThrow
               /\ made("UpdateTarget") \/ made("LockTarget")
                    => state # "INACTIVE" /\ Wang
               /\ Cardinality(Handling(calls)) <= 1
               /\ made("LockTarget") => ~Point
               /\ justThrew' <=> made("throwWang")]_all

\* a frame with the throw, point and lock buttons down on a flying boomerang
\* called UpdateTarget alone
C35_Witness ==
    /\ Called("PlayerControl::Update")
    /\ lastCall.arg = <<TRUE, TRUE, TRUE, FALSE>>
    /\ frameCalls = <<"UpdateTarget">>
    /\ state = "POINTTRACK"
    /\ ~justThrew

\* C36: a frame of PlayerControl::Update on the controller path in which the
\* recall button is down calls makeBoomerangInactive last and leaves the
\* boomerang INACTIVE, parked and at rest, whatever the other buttons and
\* also when the frame threw it.
C36_RecallWins ==
    [][(/\ Called("PlayerControl::Update")'
        /\ lastCall'.arg[4])
         => /\ frameCalls' # <<>>
            /\ frameCalls'[Len(frameCalls')] = "makeBoomerangInactive"
            /\ state' = "INACTIVE"
            /\ position' = inactivePosition
            /\ velocity' = Zero]_all

\* a frame threw the boomerang and recalled it
C36_Witness ==
    /\ Called("PlayerControl::Update")
    /\ lastCall.arg[4]
    /\ frameCalls = <<"throwWang", "makeBoomerangInactive">>
    /\ justThrew
    /\ state = "INACTIVE"

\* the boomerang called name: "Boomerang 1" or "Boomerang 2"
Flying(name) ==
    IF name = "Boomerang 1"
    THEN [state |-> state, targetLocked |-> targetLocked, returning |-> returning,
          position |-> position, velocity |-> velocity]
    ELSE boomerang2

\* C37: when the enemy's boomerang enters the player's trigger, that
\* boomerang is in RETURNING right after, whatever its state was, and the
\* health is as before; the next HealthManager::Update takes exactly 1
\* health, and an Update with no entry of the enemy's boomerang since the
\* Update before takes none.
C37_EnemyHit ==
    /\ [][(/\ Called("OnEnteredTrigger")'
           /\ lastCall'.arg = BoomerangOf(enemyID))
            => /\ Flying(BoomerangOf(enemyID))'.state = "RETURNING"
               /\ Flying(BoomerangOf(enemyID))'.returning
               /\ healthVal' = healthVal]_all
    /\ [][Called("HealthManager::Update")'
            => healthVal' = IF hits = 0 THEN healthVal ELSE healthVal - 1]_all

\* a boomerang locked on player 2 hit player 2 and came back; the Update
\* after took 1 health and the next one none
C37_Witness ==
    /\ Called("HealthManager::Update")
    /\ playerID = 2
    /\ state = "RETURNING"
    /\ targetEntity = "Player 2"
    /\ settledHits = 0
    /\ healthVal = maxHealth - 1
    /\ ~loseHealth

\* the last call was the entry of the player's own boomerang into the trigger
OwnerContact ==
    Called("OnEnteredTrigger") /\ lastCall.arg = BoomerangOf(playerID)

C39_HitsCoalesced ==
    [][(/\ Called("HealthManager::Update")'
        /\ hits >= 1)
         => /\ healthVal' = healthVal - 1
            /\ ~loseHealth'
            /\ ~gotHit']_all

\* two entries of the enemy's boomerang were settled by one Update for 1 health
C39_Witness ==
    /\ Called("HealthManager::Update")
    /\ settledHits >= 2
    /\ healthVal = maxHealth - 1
    /\ damageScreenOpacity = FullOpacity

====
